---- MODULE Spec2Model ----
(***************************************************************************)
(* Model of organizer/disk_operations.py: the flat diff                    *)
(* (compare_structures) and the four-phase synchroniser (apply_changes),   *)
(* run against an explicit POSIX-like filesystem.                          *)
(*                                                                         *)
(* Strings are sequences of one-character strings, so that startswith,     *)
(* dirname, strip, count and the sort keys are computed character by       *)
(* character as the Python code computes them.                             *)
(***************************************************************************)
EXTENDS Integers, Sequences, FiniteSets, TLC

(***************************************************************************)
(* Python str helpers                                                      *)
(***************************************************************************)

\* characters in ASCII order; Ord gives the rank used by str comparison
Alphabet == <<"-", ".", "/", "2", ":", "N", "a", "b", "c", "e", "f", "n", "o", "q", "r", "s", "t", "x", "y">>

Ord(c) == CHOOSE i \in 1..Len(Alphabet) : Alphabet[i] = c

\* s.startswith(pre)
StartsWith(s, pre) == Len(pre) <= Len(s) /\ SubSeq(s, 1, Len(pre)) = pre

\* s.endswith("/")
EndsWithSlash(s) == Len(s) > 0 /\ s[Len(s)] = "/"

\* s.count(c)
CountChar(s, c) == Cardinality({i \in 1..Len(s) : s[i] = c})

\* s.rfind("/") + 1 (0 when there is no slash)
RFindSlash(s) == IF \E i \in 1..Len(s) : s[i] = "/"
                 THEN CHOOSE i \in 1..Len(s) : s[i] = "/" /\ \A j \in (i+1)..Len(s) : s[j] # "/"
                 ELSE 0

\* s.rstrip("/")
RECURSIVE RStripSlash(_)
RStripSlash(s) == IF EndsWithSlash(s) THEN RStripSlash(SubSeq(s, 1, Len(s) - 1)) ELSE s

\* s.lstrip("/")
RECURSIVE LStripSlash(_)
LStripSlash(s) == IF Len(s) > 0 /\ s[1] = "/" THEN LStripSlash(Tail(s)) ELSE s

\* s.strip("/")
StripSlash(s) == LStripSlash(RStripSlash(s))

AllSlashes(s) == \A i \in 1..Len(s) : s[i] = "/"

\* a < b for Python str (lexicographic by code point)
RECURSIVE StrLess(_, _)
StrLess(a, b) ==
    IF b = <<>> THEN FALSE
    ELSE IF a = <<>> THEN TRUE
    ELSE IF a[1] # b[1] THEN Ord(a[1]) < Ord(b[1])
    ELSE StrLess(Tail(a), Tail(b))

\* s.split("/")
RECURSIVE SplitSlash(_)
SplitSlash(s) ==
    IF \A i \in 1..Len(s) : s[i] # "/" THEN <<s>>
    ELSE LET i == CHOOSE k \in 1..Len(s) : s[k] = "/" /\ \A j \in 1..(k-1) : s[j] # "/"
         IN <<SubSeq(s, 1, i - 1)>> \o SplitSlash(SubSeq(s, i + 1, Len(s)))

(***************************************************************************)
(* posixpath                                                               *)
(***************************************************************************)

\* posixpath.split(p) -> (head, tail)
PathSplit(p) ==
    LET i == RFindSlash(p)
        head == SubSeq(p, 1, i)
        tail == SubSeq(p, i + 1, Len(p))
    IN <<IF head # <<>> /\ ~AllSlashes(head) THEN RStripSlash(head) ELSE head, tail>>

\* os.path.dirname(p)
Dirname(p) == PathSplit(p)[1]

\* os.path.basename(p)
Basename(p) == SubSeq(p, RFindSlash(p) + 1, Len(p))

\* os.path.join(a, b)
Join(a, b) ==
    IF Len(b) > 0 /\ b[1] = "/" THEN b
    ELSE IF a = <<>> \/ EndsWithSlash(a) THEN a \o b
    ELSE a \o <<"/">> \o b

\* the normalised child of a normalised directory path
Child(dir, name) == IF dir = <<"/">> THEN dir \o name ELSE dir \o <<"/">> \o name

\* posixpath.normpath on an absolute path: drop "" and ".", let ".." pop
RECURSIVE NormWalk(_, _)
NormWalk(cur, comps) ==
    IF comps = <<>> THEN cur
    ELSE LET c == Head(comps) IN
         IF c = <<>> \/ c = <<".">> THEN NormWalk(cur, Tail(comps))
         ELSE IF c = <<".", ".">> THEN NormWalk(Dirname(cur), Tail(comps))
         ELSE NormWalk(Child(cur, c), Tail(comps))

\* os.path.realpath(p) for an absolute p on a tree without symbolic links
Realpath(p) == NormWalk(<<"/">>, SplitSlash(p))

(***************************************************************************)
(* The filesystem: fs.d is the set of directories, fs.f maps each regular  *)
(* file to its content; both are keyed by normalised absolute path.        *)
(* There are no symbolic links.                                            *)
(***************************************************************************)

Entries(fs) == fs.d \cup DOMAIN fs.f

\* kernel path resolution, component by component
RECURSIVE ResolveWalk(_, _, _)
ResolveWalk(fs, cur, comps) ==
    IF comps = <<>> THEN [st |-> "ok", at |-> cur, rest |-> <<>>]
    ELSE IF cur \notin fs.d THEN [st |-> "enotdir", at |-> cur, rest |-> comps]
    ELSE LET c == Head(comps) IN
         IF c = <<>> \/ c = <<".">> THEN ResolveWalk(fs, cur, Tail(comps))
         ELSE IF c = <<".", ".">> THEN ResolveWalk(fs, Dirname(cur), Tail(comps))
         ELSE IF Child(cur, c) \in Entries(fs) THEN ResolveWalk(fs, Child(cur, c), Tail(comps))
         ELSE [st |-> "enoent", at |-> Child(cur, c), rest |-> Tail(comps)]

Resolve(fs, p) == ResolveWalk(fs, <<"/">>, SplitSlash(p))

\* os.path.exists(p)
Exists(fs, p) == Resolve(fs, p).st = "ok"

\* os.path.isdir(p)
IsDir(fs, p) == Resolve(fs, p).st = "ok" /\ Resolve(fs, p).at \in fs.d

HasChildren(fs, dir) == \E q \in Entries(fs) : q # dir /\ Dirname(q) = dir

\* the last name of p is "." or ".."
EndsInDots(p) == Basename(RStripSlash(p)) \in {<<".">>, <<".", ".">>}

\* os.mkdir(p): trailing slashes do not count, the last name must be new
Mkdir(fs, p) ==
    LET r == Resolve(fs, IF AllSlashes(p) THEN p ELSE RStripSlash(p)) IN
    IF r.st = "ok" THEN [fs |-> fs, err |-> "FileExistsError"]
    ELSE IF r.st = "enotdir" THEN [fs |-> fs, err |-> "NotADirectoryError"]
    ELSE IF r.rest = <<>>
         THEN [fs |-> [fs EXCEPT !.d = @ \cup {r.at}], err |-> ""]
         ELSE [fs |-> fs, err |-> "FileNotFoundError"]

\* os.makedirs(name, exist_ok=True)
RECURSIVE Makedirs(_, _)
Makedirs(fs, name) ==
    LET s1 == PathSplit(name)
        s2 == IF s1[2] = <<>> THEN PathSplit(s1[1]) ELSE s1
        head == s2[1]
        tail == s2[2]
        up == IF head # <<>> /\ tail # <<>> /\ ~Exists(fs, head)
              THEN Makedirs(fs, head)
              ELSE [fs |-> fs, err |-> ""]
    IN IF up.err \notin {"", "FileExistsError"} THEN up
       ELSE IF tail = <<".">> THEN [fs |-> up.fs, err |-> ""]
       ELSE LET m == Mkdir(up.fs, name) IN
            IF m.err # "" /\ IsDir(up.fs, name) THEN [fs |-> up.fs, err |-> ""] ELSE m

\* os.remove(p)
Remove(fs, p) ==
    LET r == Resolve(fs, p) IN
    IF r.st = "enoent" THEN [fs |-> fs, err |-> "FileNotFoundError"]
    ELSE IF r.st = "enotdir" THEN [fs |-> fs, err |-> "NotADirectoryError"]
    ELSE IF r.at \in fs.d THEN [fs |-> fs, err |-> "IsADirectoryError"]
    ELSE [fs |-> [fs EXCEPT !.f = [q \in DOMAIN fs.f \ {r.at} |-> fs.f[q]]], err |-> ""]

\* a mutation of Rmdir: removes the directory with whatever it holds
Rmdir_Recursive(fs, p) ==
    LET r == Resolve(fs, p) IN
    IF r.st # "ok" \/ r.at \notin fs.d \/ EndsInDots(p) \/ r.at = <<"/">>
    THEN [fs |-> fs, err |-> "OSError"]
    ELSE [fs |-> [d |-> {q \in fs.d : q # r.at /\ ~StartsWith(q, r.at \o <<"/">>)},
                  f |-> [q \in {e \in DOMAIN fs.f : ~StartsWith(e, r.at \o <<"/">>)} |-> fs.f[q]]],
          err |-> ""]

\* os.rmdir(p)
Rmdir(fs, p) ==
    LET r == Resolve(fs, p) IN
    IF r.st # "ok" \/ r.at \notin fs.d \/ EndsInDots(p) \/ r.at = <<"/">> \/ HasChildren(fs, r.at)
    THEN [fs |-> fs, err |-> "OSError"]
    ELSE [fs |-> [fs EXCEPT !.d = @ \ {r.at}], err |-> ""]

\* os.rename(src, dst) on one device
Rename(fs, src, dst) ==
    LET s == Resolve(fs, src)
        t == Resolve(fs, dst)
        fail == [fs |-> fs, err |-> "OSError"]
        Inside(q) == q = s.at \/ StartsWith(q, s.at \o <<"/">>)
        MapPath(q) == IF Inside(q) THEN t.at \o SubSeq(q, Len(s.at) + 1, Len(q)) ELSE q
    IN
    IF s.st # "ok" THEN fail
    ELSE IF ~(t.st = "ok" \/ (t.st = "enoent" /\ t.rest = <<>>)) THEN fail
    ELSE IF s.at \in DOMAIN fs.f
    THEN IF t.st = "ok" /\ t.at \in fs.d THEN fail
         ELSE IF t.at = s.at THEN [fs |-> fs, err |-> ""]
         ELSE [fs |-> [fs EXCEPT !.f = [q \in (DOMAIN fs.f \ {s.at}) \cup {t.at} |->
                                           IF q = t.at THEN fs.f[s.at] ELSE fs.f[q]]],
               err |-> ""]
    ELSE IF t.st = "ok" /\ t.at = s.at THEN [fs |-> fs, err |-> ""]
         ELSE IF t.st = "ok" \/ Inside(t.at) \/ s.at = <<"/">> THEN fail
         ELSE [fs |-> [d |-> {MapPath(q) : q \in fs.d},
                       f |-> [q2 \in {MapPath(q) : q \in DOMAIN fs.f} |->
                                fs.f[CHOOSE q \in DOMAIN fs.f : MapPath(q) = q2]]],
               err |-> ""]

\* shutil.move(src, dst)
Move(fs, src, dst) ==
    LET dstIsDir == IsDir(fs, dst)
        samefile == Exists(fs, src) /\ Resolve(fs, src).at = Resolve(fs, dst).at
        real_dst == IF dstIsDir THEN Join(dst, Basename(RStripSlash(src))) ELSE dst
        rn == Rename(fs, src, IF dstIsDir /\ samefile THEN dst ELSE real_dst)
    IN
    IF dstIsDir /\ ~samefile /\ Exists(fs, real_dst) THEN [fs |-> fs, err |-> "shutil.Error"]
    ELSE IF rn.err = "" THEN rn
    ELSE IF ~Exists(fs, src) THEN [fs |-> fs, err |-> "FileNotFoundError"]
    ELSE [fs |-> fs, err |-> "OSError"]

(***************************************************************************)
(* FlatFileItem, create_json_from_dir, compare_structures                  *)
(***************************************************************************)

\* hash=None of a FlatFileItem
NONE == <<"None">>

\* str(item.hash) inside an f-string
HashStr(h) == IF h = NONE THEN <<"N", "o", "n", "e">> ELSE h

\* _calculate_md5: a digest of the file's bytes
Md5(content) == <<"h">> \o content

FileItem(path, content) == [path |-> path, hash |-> Md5(content), size |-> Len(content)]

DirItem(path) == [path |-> path, hash |-> NONE, size |-> -1]

\* a mutation of SortedByPath: the items in any order
AnyOrder(S) ==
    {q \in [1..Cardinality(S) -> S] : \A i, j \in DOMAIN q : i # j => q[i] # q[j]}

\* every ordering sorted(S, key=lambda x: x.path) can return: ascending by
\* path, items of equal path in the order the set happens to iterate
SortedByPath(S) ==
    {q \in [1..Cardinality(S) -> S] :
        /\ \A i, j \in DOMAIN q : i # j => q[i] # q[j]
        /\ \A i \in DOMAIN q : i + 1 \in DOMAIN q => ~StrLess(q[i+1].path, q[i].path)}

\* os.path.relpath(p, root) for p strictly below root
Relpath(p, root) == SubSeq(p, Len(root) + 2, Len(p))

\* the items a snapshot of root_dir is to hold: one per regular file below
\* it and one marker per directory below it that holds nothing
SnapshotItems(fs, root_dir) ==
    LET top == Resolve(fs, root_dir).at
        below == {q \in Entries(fs) : StartsWith(q, top \o <<"/">>)}
    IN {DirItem(Relpath(q, top) \o <<"/">>) : q \in {e \in below \cap fs.d : ~HasChildren(fs, e)}}
       \cup {FileItem(Relpath(q, top), fs.f[q]) : q \in below \cap DOMAIN fs.f}

\* the entries os.scandir(dir) lists
Listdir(fs, dir) == {q \in Entries(fs) : q # dir /\ Dirname(q) = dir}

\* a listing order of a set of entries; the order scandir lists in is not
\* specified, rev picks ascending or descending by name
RECURSIVE ListOrder(_, _)
ListOrder(S, rev) ==
    IF S = {} THEN <<>>
    ELSE LET m == CHOOSE x \in S : \A y \in S : y # x => (IF rev THEN StrLess(y, x) ELSE StrLess(x, y))
         IN <<m>> \o ListOrder(S \ {m}, rev)

\* lines 18-35: the items appended while os.walk visits dirpath and, top
\* down, the directories below it
RECURSIVE WalkFrom(_, _, _, _)
RECURSIVE WalkEach(_, _, _, _)
WalkFrom(fs, dirpath, top, rev) ==
    LET dirnames == ListOrder(Listdir(fs, dirpath) \cap fs.d, rev)
        filenames == ListOrder(Listdir(fs, dirpath) \cap DOMAIN fs.f, rev)
        rel_path == IF dirpath = top THEN <<".">> ELSE Relpath(dirpath, top)
        empty == IF filenames = <<>> /\ dirnames = <<>> /\ rel_path # <<".">>
                 THEN <<DirItem(rel_path \o <<"/">>)>>
                 ELSE <<>>
        files == [k \in 1..Len(filenames) |-> FileItem(Relpath(filenames[k], top), fs.f[filenames[k]])]
    IN empty \o files \o WalkEach(fs, dirnames, top, rev)

WalkEach(fs, dirs, top, rev) ==
    IF dirs = <<>> THEN <<>>
    ELSE WalkFrom(fs, Head(dirs), top, rev) \o WalkEach(fs, Tail(dirs), top, rev)

\* sorted(items, key=lambda x: x.path) of a list: stable, ascending by path
RECURSIVE sorted_by_path(_)
sorted_by_path(items) ==
    IF items = <<>> THEN <<>>
    ELSE LET q == sorted_by_path(SubSeq(items, 1, Len(items) - 1))
             x == items[Len(items)]
             k == Cardinality({i \in 1..Len(q) : ~StrLess(x.path, q[i].path)})
         IN SubSeq(q, 1, k) \o <<x>> \o SubSeq(q, k + 1, Len(q))

\* a mutation of create_json_from_dir: empty directories are not recorded
create_json_from_dir_FilesOnly(fs, root_dir) ==
    IF ~IsDir(fs, root_dir) THEN {NONE}
    ELSE {SelectSeq(sorted_by_path(WalkFrom(fs, Resolve(fs, root_dir).at, Resolve(fs, root_dir).at, rev)),
                    LAMBDA it : ~EndsWithSlash(it.path)) : rev \in BOOLEAN}

\* a mutation of create_json_from_dir: the isdir check is left out and the
\* walk of a path that is no directory visits nothing
create_json_from_dir_NoCheck(fs, root_dir) ==
    IF ~IsDir(fs, root_dir) THEN {<<>>}
    ELSE {sorted_by_path(WalkFrom(fs, Resolve(fs, root_dir).at, Resolve(fs, root_dir).at, rev)) : rev \in BOOLEAN}

\* a mutation of create_json_from_dir: the list is returned as collected
create_json_from_dir_Unsorted(fs, root_dir) ==
    IF ~IsDir(fs, root_dir) THEN {NONE}
    ELSE {WalkFrom(fs, Resolve(fs, root_dir).at, Resolve(fs, root_dir).at, rev) : rev \in BOOLEAN}

\* create_json_from_dir: NONE when root_dir is not a directory, else the
\* sorted list, for each order the directories can be listed in
create_json_from_dir(fs, root_dir) ==
    IF ~IsDir(fs, root_dir) THEN {NONE}
    ELSE {sorted_by_path(WalkFrom(fs, Resolve(fs, root_dir).at, Resolve(fs, root_dir).at, rev)) : rev \in BOOLEAN}

\* a mutation of item_key: the hash is not part of a file's key
item_key_PathOnly(item, files_only) ==
    IF files_only /\ ~EndsWithSlash(item.path) THEN Basename(item.path) ELSE item.path

\* a mutation of item_key: files_only is ignored
item_key_IgnoreMode(item, files_only) ==
    IF EndsWithSlash(item.path) THEN item.path
    ELSE item.path \o <<":", ":">> \o HashStr(item.hash)

\* compare_structures.item_key
item_key(item, files_only) ==
    IF files_only /\ ~EndsWithSlash(item.path)
    THEN Basename(item.path) \o <<":", ":">> \o HashStr(item.hash)
    ELSE IF EndsWithSlash(item.path) THEN item.path
    ELSE item.path \o <<":", ":">> \o HashStr(item.hash)

\* the dict comprehension {item_key(item): item for item in items if ...}:
\* a later item replaces an earlier one of the same key
KeyMap(items, files_only) ==
    LET kept == {i \in 1..Len(items) : ~files_only \/ ~EndsWithSlash(items[i].path)}
        keys == {item_key(items[i], files_only) : i \in kept}
    IN [k \in keys |->
          items[CHOOSE i \in kept : /\ item_key(items[i], files_only) = k
                                    /\ \A j \in kept : item_key(items[j], files_only) = k => j <= i]]

\* a mutation of compare_structures: added_keys is every desired key
compare_structures_KeepCommon(current_items, desired_items, files_only) ==
    SortedByPath({KeyMap(current_items, files_only)[k] :
                     k \in DOMAIN KeyMap(current_items, files_only) \ DOMAIN KeyMap(desired_items, files_only)})
    \X SortedByPath({KeyMap(desired_items, files_only)[k] : k \in DOMAIN KeyMap(desired_items, files_only)})

\* compare_structures: the set of (missing, added) pairs it can return
compare_structures(current_items, desired_items, files_only) ==
    LET current_map == KeyMap(current_items, files_only)
        desired_map == KeyMap(desired_items, files_only)
        missing_keys == DOMAIN current_map \ DOMAIN desired_map
        added_keys == DOMAIN desired_map \ DOMAIN current_map
    IN SortedByPath({current_map[k] : k \in missing_keys})
       \X SortedByPath({desired_map[k] : k \in added_keys})

(***************************************************************************)
(* ConsoleRenderer.generate_file_tree.  A tree is its root label and its   *)
(* nodes: the path of labels from the root to a node, mapped to "dir" for  *)
(* a folder node and to "file" for a file leaf.                            *)
(***************************************************************************)

\* no tree yet
NoTree == [label |-> <<>>, nodes |-> <<>>, err |-> ""]

\* the working directory of the process
Cwd == <<"/", "c">>

\* [p for p in s.split("/") if p]
Parts(s) == SelectSeq(SplitSlash(s), LAMBDA c : c # <<>>)

\* os.path.commonprefix(m) for a non-empty list: the longest common prefix
\* of the least and the greatest string
commonprefix(m) ==
    LET s1 == CHOOSE a \in m : \A b \in m : ~StrLess(b, a)
        s2 == CHOOSE a \in m : \A b \in m : ~StrLess(a, b)
        diff == {i \in 1..Len(s1) : i > Len(s2) \/ s1[i] # s2[i]}
    IN IF diff = {} THEN s1
       ELSE SubSeq(s1, 1, (CHOOSE i \in diff : \A j \in diff : i <= j) - 1)

\* how many leading entries two lists share
RECURSIVE CommonLen(_, _)
CommonLen(a, b) ==
    IF a = <<>> \/ b = <<>> \/ Head(a) # Head(b) THEN 0
    ELSE 1 + CommonLen(Tail(a), Tail(b))

\* "/".join(list)
RECURSIVE JoinAll(_)
JoinAll(list) ==
    IF list = <<>> THEN <<>>
    ELSE IF Len(list) = 1 THEN list[1]
    ELSE list[1] \o <<"/">> \o JoinAll(Tail(list))

\* os.path.relpath(path, start)
os_path_relpath(path, start) ==
    LET start_list == Parts(Realpath(Join(Cwd, start)))
        path_list == Parts(Realpath(Join(Cwd, path)))
        i == CommonLen(start_list, path_list)
        rel_list == [k \in 1..(Len(start_list) - i) |-> <<".", ".">>] \o SubSeq(path_list, i + 1, Len(path_list))
    IN IF rel_list = <<>> THEN <<".">> ELSE JoinAll(rel_list)

\* lines 21-25
TreePrefix(items) ==
    LET prefix == commonprefix({items[i].path : i \in 1..Len(items)})
    IN IF \E k \in 1..Len(prefix) : prefix[k] = "/" THEN SubSeq(prefix, 1, RFindSlash(prefix)) ELSE <<>>

\* the node at q and the nodes below it
Below(nodes, q) == {d \in DOMAIN nodes : Len(d) >= Len(q) /\ SubSeq(d, 1, Len(q)) = q}

\* lines 34-41: the descent from the node at cur along parts; t holds the
\* nodes so far and the exception raised, if any
RECURSIVE Descend(_, _, _, _)
Descend(t, cur, parts, is_dir) ==
    LET q == Append(cur, Head(parts))
        at_item == cur # <<>> /\ t.nodes[cur] = "file"
    IN
    IF parts = <<>> THEN [t EXCEPT !.err = "IndexError"]
    ELSE IF Len(parts) > 1 THEN
        IF at_item THEN [t EXCEPT !.err = "AttributeError"]
        ELSE Descend(IF q \in DOMAIN t.nodes THEN t ELSE [t EXCEPT !.nodes = (q :> "dir") @@ @],
                     q, Tail(parts), is_dir)
    ELSE IF is_dir THEN
        IF at_item THEN [t EXCEPT !.err = "AttributeError"]
        ELSE IF q \in DOMAIN t.nodes THEN t
        ELSE [t EXCEPT !.nodes = (q :> "dir") @@ @]
    ELSE
        IF at_item THEN [t EXCEPT !.err = "TypeError"]
        ELSE [t EXCEPT !.nodes = (q :> "file") @@ [d \in DOMAIN @ \ Below(@, q) |-> @[d]]]

\* lines 31-41: the loop over the items
RECURSIVE FillTree(_, _, _, _)
FillTree(items, prefix, i, t) ==
    IF t.err # "" \/ i > Len(items) THEN t
    ELSE LET rel_path == IF prefix # <<>> THEN os_path_relpath(items[i].path, prefix) ELSE items[i].path
         IN FillTree(items, prefix, i + 1,
                     Descend(t, <<>>, Parts(StripSlash(rel_path)), EndsWithSlash(items[i].path)))

\* generate_file_tree(items): build_tree turns every dict of fs_tree into a
\* folder node and everything else into a file leaf
generate_file_tree(items) ==
    IF items = <<>> THEN [label |-> <<".">>, nodes |-> <<>>, err |-> ""]
    ELSE LET prefix == TreePrefix(items)
             root_label == IF StripSlash(prefix) # <<>> THEN StripSlash(prefix) ELSE <<".">>
             t == FillTree(items, prefix, 1, [nodes |-> <<>>, err |-> ""])
         IN IF t.err # "" THEN [label |-> <<>>, nodes |-> <<>>, err |-> t.err]
            ELSE [label |-> root_label, nodes |-> t.nodes, err |-> ""]

(***************************************************************************)
(* apply_changes, one loop iteration at a time.  A run record s carries    *)
(* the filesystem, handled_paths, the filesystem calls made so far and     *)
(* the exception (if any) that ended the run.                              *)
(***************************************************************************)

Raise(s, r) == [s EXCEPT !.fs = r.fs, !.err = r.err]

Did(s, r, op, path) == [s EXCEPT !.fs = r.fs, !.ops = Append(@, [op |-> op, path |-> path])]

Handle(s, path) == [s EXCEPT !.handled = @ \cup {path}]

\* real_root_dir = os.path.realpath(root_dir)
real_root_dir(root_dir) == Realpath(root_dir)

\* os.path.join(root_dir, item.path.replace("/", os.sep)) with os.sep = "/"
FullPath(root_dir, path) == Join(root_dir, path)

\* os.path.realpath(full_path).startswith(real_root_dir)
WithinRoot(root_dir, full_path) == StartsWith(Realpath(full_path), real_root_dir(root_dir))

\* step 1, body of the loop over added_items
CreateDirItem(root_dir, item, s) ==
    IF ~EndsWithSlash(item.path) THEN s
    ELSE LET full_path == FullPath(root_dir, item.path) IN
         IF ~Exists(s.fs, full_path)
         THEN LET m == Makedirs(s.fs, full_path) IN
              IF m.err # "" THEN Raise(s, m)
              ELSE Handle(Did(s, m, "makedirs", full_path), item.path)
         ELSE Handle(s, item.path)

\* a truthy item.hash
Truthy(h) == h # NONE /\ h # <<>>

\* a mutation of FileIdx: markers and items without a hash are kept
FileIdx_All(items) == 1..Len(items)

FileIdx(items) == {i \in 1..Len(items) : ~EndsWithSlash(items[i].path) /\ Truthy(items[i].hash)}

RECURSIVE Ascending(_)
Ascending(S) == IF S = {} THEN <<>>
                ELSE LET m == CHOOSE x \in S : \A y \in S : x <= y
                     IN <<m>> \o Ascending(S \ {m})

\* keys of {item.hash: item for item in items if ...} in insertion order
HashOrder(items) ==
    LET first == {i \in FileIdx(items) : \A j \in FileIdx(items) : j < i => items[j].hash # items[i].hash}
        idx == Ascending(first)
    IN [k \in 1..Len(idx) |-> items[idx[k]].hash]

HasHash(items, h) == \E i \in FileIdx(items) : items[i].hash = h

\* a mutation of ByHash: the first item of that hash is kept
ByHash_First(items, h) ==
    items[CHOOSE i \in FileIdx(items) : /\ items[i].hash = h
                                      /\ \A j \in FileIdx(items) : items[j].hash = h => i <= j]

\* the value kept for key h: the last item of that hash
ByHash(items, h) ==
    items[CHOOSE i \in FileIdx(items) : /\ items[i].hash = h
                                      /\ \A j \in FileIdx(items) : items[j].hash = h => j <= i]

\* step 2, the move of one matched pair
MovePair(root_dir, old_item, new_item, s) ==
    LET full_old_path == FullPath(root_dir, old_item.path)
        full_new_path == FullPath(root_dir, new_item.path)
        dest_dir == Dirname(full_new_path)
        mk == IF ~Exists(s.fs, dest_dir) THEN Makedirs(s.fs, dest_dir) ELSE [fs |-> s.fs, err |-> ""]
        s1 == IF ~Exists(s.fs, dest_dir) /\ mk.err = "" THEN Did(s, mk, "makedirs", dest_dir) ELSE s
        mv == Move(s1.fs, full_old_path, full_new_path)
    IN
    IF ~WithinRoot(root_dir, full_old_path) \/ ~WithinRoot(root_dir, full_new_path) THEN s
    ELSE IF mk.err # "" THEN Raise(s, mk)
    ELSE IF mv.err # "" THEN Raise(s1, mv)
    ELSE Handle(Handle(Did(s1, mv, "move", full_old_path), old_item.path), new_item.path)

\* step 2, body of the loop over missing_files_by_hash.items()
MoveHash(root_dir, missing_items, added_items, file_hash, s) ==
    IF HasHash(added_items, file_hash)
    THEN MovePair(root_dir, ByHash(missing_items, file_hash), ByHash(added_items, file_hash), s)
    ELSE s

\* a mutation of DeleteItem: the directory of a removed file is removed
\* along with it when that leaves it empty
DeleteItem_ThenRmdir(root_dir, item, s) ==
    LET full_path == FullPath(root_dir, item.path)
        rm == Remove(s.fs, full_path)
        rd == Rmdir(rm.fs, Dirname(full_path))
    IN
    IF item.path \in s.handled \/ EndsWithSlash(item.path) THEN s
    ELSE IF ~WithinRoot(root_dir, full_path) THEN s
    ELSE IF ~Exists(s.fs, full_path) THEN s
    ELSE IF rm.err # "" THEN Raise(s, rm)
    ELSE IF rd.err # "" THEN Handle(Did(s, rm, "remove", full_path), item.path)
    ELSE Did(Handle(Did(s, rm, "remove", full_path), item.path), rd, "rmdir", Dirname(full_path))

\* step 3, body of the loop over missing_items
DeleteItem(root_dir, item, s) ==
    LET full_path == FullPath(root_dir, item.path)
        rm == Remove(s.fs, full_path)
    IN
    IF item.path \in s.handled \/ EndsWithSlash(item.path) THEN s
    ELSE IF ~WithinRoot(root_dir, full_path) THEN s
    ELSE IF ~Exists(s.fs, full_path) THEN s
    ELSE IF rm.err # "" THEN Raise(s, rm)
    ELSE Handle(Did(s, rm, "remove", full_path), item.path)

\* step 4, the while loop that walks up from current_dir
RECURSIVE WalkUp(_)
WalkUp(current_dir) ==
    IF current_dir = <<>> THEN {}
    ELSE {current_dir} \cup (IF Dirname(current_dir) = current_dir THEN {}
                             ELSE WalkUp(Dirname(current_dir)))

\* step 4, dirs_to_check
DirsToCheck(missing_items) ==
    UNION {WalkUp(IF EndsWithSlash(missing_items[i].path)
                  THEN StripSlash(missing_items[i].path)
                  ELSE Dirname(missing_items[i].path)) : i \in 1..Len(missing_items)}

\* the sort key p.count("/") + p.count("\\")
DepthKey(p) == CountChar(p, "/") + CountChar(p, "\\")

\* a mutation of PruneDir: the OSError of os.rmdir is not caught
PruneDir_Raises(root_dir, dir_path, s) ==
    LET full_path == FullPath(root_dir, dir_path)
        rd == Rmdir(s.fs, full_path)
    IN
    IF ~WithinRoot(root_dir, full_path) THEN s
    ELSE IF ~IsDir(s.fs, full_path) THEN s
    ELSE IF rd.err # "" THEN Raise(s, rd)
    ELSE Did(s, rd, "rmdir", full_path)

\* step 4, body of the loop over the sorted candidates
PruneDir(root_dir, dir_path, s) ==
    LET full_path == FullPath(root_dir, dir_path)
        rd == Rmdir(s.fs, full_path)
    IN
    IF ~WithinRoot(root_dir, full_path) THEN s
    ELSE IF ~IsDir(s.fs, full_path) THEN s
    ELSE IF rd.err # "" THEN s
    ELSE Did(s, rd, "rmdir", full_path)

(***************************************************************************)
(* apply_changes as one function of its arguments and the filesystem       *)
(***************************************************************************)

RECURSIVE CreateDirs(_, _, _, _)
CreateDirs(root, added, i, s) ==
    IF s.err # "" \/ i > Len(added) THEN s
    ELSE CreateDirs(root, added, i + 1, CreateDirItem(root, added[i], s))

RECURSIVE MoveFiles(_, _, _, _, _)
MoveFiles(root, missing, added, i, s) ==
    IF s.err # "" \/ i > Len(HashOrder(missing)) THEN s
    ELSE MoveFiles(root, missing, added, i + 1, MoveHash(root, missing, added, HashOrder(missing)[i], s))

RECURSIVE DeleteFiles(_, _, _, _)
DeleteFiles(root, missing, i, s) ==
    IF s.err # "" \/ i > Len(missing) THEN s
    ELSE DeleteFiles(root, missing, i + 1, DeleteItem(root, missing[i], s))

RECURSIVE PruneDirs(_, _, _)
PruneDirs(root, todo, s) ==
    IF s.err # "" \/ todo = {} THEN s
    ELSE LET dir_path == CHOOSE x \in todo : \A o \in todo : DepthKey(o) <= DepthKey(x)
         IN PruneDirs(root, todo \ {dir_path}, PruneDir(root, dir_path, s))

\* the run record apply_changes ends with; err is "no_root" when the root
\* check fails, the exception when one is raised, "" otherwise
apply_changes(fsys, current, desired, root) ==
    LET s0 == [fs |-> fsys, handled |-> {}, ops |-> <<>>, err |-> ""]
        c == CHOOSE x \in compare_structures(current, desired, FALSE) : TRUE
    IN IF ~IsDir(fsys, root) THEN [s0 EXCEPT !.err = "no_root"]
       ELSE PruneDirs(root, DirsToCheck(c[1]),
                DeleteFiles(root, c[1], 1,
                    MoveFiles(root, c[1], c[2], 1,
                        CreateDirs(root, c[2], 1, s0))))

(***************************************************************************)
(* Inputs                                                                  *)
(***************************************************************************)

\* most items in a current_items that is not the snapshot of the root
MaxCurrent == 1
\* most items in desired_items
MaxDesired == 2

\* root_dir, a sibling whose name starts with the root's name, and a
\* directory that does not exist
RootDir == <<"/", "t", "/", "r">>
SiblingDir == <<"/", "t", "/", "r", "2">>

\* file contents
Bytes1 == <<"1">>
Bytes2 == <<"2", "2">>

\* item paths, relative to root_dir
P_ax == <<"a", "/", "x">>
P_bx == <<"b", "/", "x">>
P_a == <<"a", "/">>
P_up_s == <<".", ".", "/", "s">>
P_up_r2x == <<".", ".", "/", "r", "2", "/", "x">>
P_up_n == <<".", ".", "/", "n", "/">>
P_ay == <<"a", "/", "y">>

ItemUniverse ==
    {FileItem(P_ax, Bytes1), FileItem(P_ax, Bytes2),
     FileItem(P_bx, Bytes1), FileItem(P_bx, Bytes2),
     FileItem(P_up_s, Bytes1), FileItem(P_up_r2x, Bytes1),
     DirItem(P_a), DirItem(P_up_n)}

ItemLists(n) ==
    {CHOOSE q \in SortedByPath(S) : TRUE :
        S \in {T \in SUBSET ItemUniverse :
                 /\ Cardinality(T) <= n
                 /\ \A x, y \in T : x.path = y.path => x = y}}

\* the initial trees: what lies outside root_dir in all of them, then an
\* empty root, an empty directory in the root (and a file where ../n/
\* points), one file, two files in two directories, two files in one
\* directory, no root, and a regular file where the root should be
OutsideDirs == {<<"/">>, <<"/", "t">>, SiblingDir}
OutsideFiles == (Child(<<"/", "t">>, <<"s">>) :> Bytes2) @@ (Child(SiblingDir, <<"x">>) :> Bytes1)

InRoot(rel) == Child(RootDir, rel)

Tree(dirs, files) == [d |-> OutsideDirs \cup dirs, f |-> files @@ OutsideFiles]

NoFiles == [q \in {} |-> Bytes1]

Trees ==
    {Tree({RootDir}, NoFiles),
     Tree({RootDir, InRoot(<<"a">>)}, Realpath(FullPath(RootDir, P_up_n)) :> Bytes1),
     Tree({RootDir, InRoot(<<"a">>)}, InRoot(P_ax) :> Bytes1),
     Tree({RootDir, InRoot(<<"a">>), InRoot(<<"b">>)}, (InRoot(P_ax) :> Bytes1) @@ (InRoot(P_bx) :> Bytes2)),
     Tree({RootDir, InRoot(<<"a">>)}, (InRoot(P_ax) :> Bytes1) @@ (InRoot(P_ay) :> Bytes2)),
     Tree({}, NoFiles),
     Tree({}, RootDir :> Bytes1)}

\* item paths that reach into the root through its parent, and a marker of
\* a directory nested in another
P_ra == <<".", ".", "/", "r", "/", "a", "/">>
P_rbx == <<".", ".", "/", "r", "/", "b", "/", "x">>
P_nn == <<"n", "/", "n", "/">>

NestedUniverse ==
    {FileItem(P_ax, Bytes1), FileItem(P_bx, Bytes1), FileItem(P_bx, Bytes2),
     FileItem(P_rbx, Bytes1),
     DirItem(P_a), DirItem(P_ra), DirItem(P_nn)}

NestedLists(n) ==
    {CHOOSE q \in SortedByPath(S) : TRUE :
        S \in {T \in SUBSET NestedUniverse :
                 /\ Cardinality(T) <= n
                 /\ \A x, y \in T : x.path = y.path => x = y}}

\* a root with one empty directory, with a chain of two empty directories,
\* with one file in each of two directories, and with a file beside the
\* chain
NestedTrees ==
    {Tree({RootDir, InRoot(<<"a">>)}, NoFiles),
     Tree({RootDir, InRoot(<<"n">>), InRoot(<<"n", "/", "n">>)}, NoFiles),
     Tree({RootDir, InRoot(<<"a">>), InRoot(<<"b">>)}, (InRoot(P_ax) :> Bytes1) @@ (InRoot(P_bx) :> Bytes2)),
     Tree({RootDir, InRoot(<<"a">>), InRoot(<<"n">>), InRoot(<<"n", "/", "n">>)}, InRoot(P_ax) :> Bytes1)}

\* a file item without a hash
HashlessItem(path) == [path |-> path, hash |-> NONE, size |-> -1]

\* items for the pairing of step 2: files that share one hash, files
\* without a hash or with an empty one, and a marker that carries a hash
P_by == <<"b", "/", "y">>
P_b == <<"b", "/">>

HashUniverse ==
    {FileItem(P_ax, Bytes1), FileItem(P_ay, Bytes1), FileItem(P_bx, Bytes1), FileItem(P_by, Bytes1),
     HashlessItem(P_ay), HashlessItem(P_by),
     [path |-> P_bx, hash |-> <<>>, size |-> 0],
     [path |-> P_b, hash |-> Md5(Bytes1), size |-> -1],
     DirItem(P_a)}

HashLists(n) ==
    {CHOOSE q \in SortedByPath(S) : TRUE :
        S \in {T \in SUBSET HashUniverse :
                 /\ Cardinality(T) <= n
                 /\ \A x, y \in T : x.path = y.path => x = y}}

\* two files of one content in one directory, and one file beside an empty
\* directory
HashTrees ==
    {Tree({RootDir, InRoot(<<"a">>)}, (InRoot(P_ax) :> Bytes1) @@ (InRoot(P_ay) :> Bytes1)),
     Tree({RootDir, InRoot(<<"a">>), InRoot(<<"b">>)}, InRoot(P_ax) :> Bytes1)}

\* items for the walk of step 4: an absolute path, paths that start with
\* "../", a file directly under the root, and markers of nested directories
\* and of "/"
P_abs == RootDir \o <<"/">> \o P_ax
P_x == <<"x">>
P_slash == <<"/">>

WalkUniverse ==
    {FileItem(P_abs, Bytes1), FileItem(P_up_s, Bytes1), FileItem(P_x, Bytes1), FileItem(P_ax, Bytes1),
     DirItem(P_nn), DirItem(P_up_n), DirItem(P_slash)}

WalkLists(n) ==
    {CHOOSE q \in SortedByPath(S) : TRUE :
        S \in {T \in SUBSET WalkUniverse :
                 /\ Cardinality(T) <= n
                 /\ \A x, y \in T : x.path = y.path => x = y}}

\* an empty root, and a root with a file, a directory with a file and a
\* chain of two empty directories
WalkTrees ==
    {Tree({RootDir}, NoFiles),
     Tree({RootDir, InRoot(<<"a">>), InRoot(<<"n">>), InRoot(<<"n", "/", "n">>)},
          (InRoot(P_x) :> Bytes1) @@ (InRoot(P_ax) :> Bytes1))}

\* most items in a list given to compare_structures on its own
MaxCompare == 2

\* the items compare_structures is run on: one path with two contents, the
\* same name in two directories, a file without a hash, two markers
CompareUniverse ==
    {FileItem(P_ax, Bytes1), FileItem(P_ax, Bytes2), FileItem(P_bx, Bytes1),
     FileItem(P_ay, Bytes2), HashlessItem(P_ay),
     DirItem(P_a), DirItem(<<"b", "/">>)}

\* the lists of at most n items, in any order, no path twice
CompareLists(n) ==
    {q \in UNION {[1..k -> CompareUniverse] : k \in 0..n} :
        \A i, j \in DOMAIN q : i # j => q[i].path # q[j].path}

\* most items in a list given to generate_file_tree
MaxRender == 3

\* the paths generate_file_tree is run on: files at the top and in
\* directories, names that share letters, markers, and a file named as a
\* directory of another path
RenderPaths ==
    {P_x, P_ax, P_ay, P_bx, <<"a", "/", "b", "/", "x">>, <<"a", "b", "/", "x">>,
     P_a, <<"a", "/", "b", "/">>, <<"a", "/", "b">>}

\* the lists of at most n items, in any order, no path twice
RenderLists(n) ==
    {q \in UNION {[1..k -> {HashlessItem(path) : path \in RenderPaths}] : k \in 0..n} :
        \A i, j \in DOMAIN q : i # j => q[i].path # q[j].path}

\* most strategies in a response of the language model
MaxStrategies == 2
\* most numbers typed at the prompt of select_strategy
MaxPrompts == 2

\* the item lists a strategy can propose: nothing, one file kept, moved,
\* moved beside a marker or moved out of the root, and two files
Plans ==
    {<<>>,
     <<FileItem(P_ax, Bytes1)>>,
     <<FileItem(P_bx, Bytes1)>>,
     <<DirItem(P_a), FileItem(P_bx, Bytes1)>>,
     <<FileItem(P_up_r2x, Bytes1)>>,
     <<FileItem(P_ax, Bytes1), FileItem(P_bx, Bytes2)>>}

\* parsed_response.strategies: at most n strategies, each by its items
StrategyLists(n) == UNION {[1..k -> Plans] : k \in 0..n}

\* the trees create_json_from_dir is run on: every tree made of these
\* directories and files in the root, each file with either content, then
\* no root and a regular file where the root should be
ScanDirs == {InRoot(<<"a">>), InRoot(<<"a", "/", "b">>), InRoot(<<"c">>)}
ScanFiles == {InRoot(<<"x">>), InRoot(P_ax), InRoot(<<"a", "/", "b", "/", "x">>), InRoot(<<"c", "/", "y">>)}

ScanTrees ==
    UNION {{Tree({RootDir} \cup D, F) :
              F \in UNION {[S -> {Bytes1, Bytes2}] :
                             S \in SUBSET {q \in ScanFiles : Dirname(q) \in D \cup {RootDir}}}} :
           D \in {E \in SUBSET ScanDirs : \A q \in E : Dirname(q) \in E \cup {RootDir}}}
    \cup {Tree({}, NoFiles), Tree({}, RootDir :> Bytes1)}

(***************************************************************************)
(* State                                                                   *)
(***************************************************************************)

VARIABLES
    fs,             \* the filesystem
    fs0,            \* the filesystem before the first call
    root_dir, current_items, desired_items,     \* the arguments
    pc,             \* "call", "mkdir", "move", "delete", "prune", "done"
    missing_items, added_items,
    handled_paths,
    idx,            \* position in the loop of the current phase
    dirs_to_check,  \* step 4 candidates not yet visited
    ops,            \* filesystem calls that succeeded in this invocation
    outcome,        \* "" while running; "ok", "no_root" or the exception
    run,            \* 1 for the first invocation, 2 for the repeat
    current_dir,    \* where the walk of step 4 stands
    tree,           \* what generate_file_tree returned
    strategies,     \* organize: the item lists of parsed_response.strategies
    selected,       \* organize: the last number typed at the prompt, -1 before
    trail           \* organize: what happened so far, in order

vars == <<fs, fs0, root_dir, current_items, desired_items, pc, missing_items, added_items,
          handled_paths, idx, dirs_to_check, ops, outcome, run, current_dir, tree,
          strategies, selected, trail>>

\* the state of FileOrganizer.organize, which apply_changes does not see
workflow == <<strategies, selected, trail>>

args == <<root_dir, current_items, desired_items, fs0, run>>

Init ==
    /\ fs \in Trees
    /\ fs0 = fs
    /\ root_dir = RootDir
    /\ current_items \in ItemLists(MaxCurrent)
                         \cup (IF IsDir(fs, RootDir) THEN create_json_from_dir(fs, RootDir) ELSE {})
    /\ desired_items \in ItemLists(MaxDesired)
    /\ pc = "call"
    /\ missing_items = <<>>
    /\ added_items = <<>>
    /\ handled_paths = {}
    /\ idx = 1
    /\ dirs_to_check = {}
    /\ ops = <<>>
    /\ outcome = ""
    /\ run = 1
    /\ current_dir = <<>>
    /\ tree = NoTree
    /\ strategies = <<>>
    /\ selected = -1
    /\ trail = <<>>

RunState == [fs |-> fs, handled |-> handled_paths, ops |-> ops, err |-> ""]

\* the effect of one loop iteration that produced s
Iterate(s) ==
    /\ fs' = s.fs
    /\ handled_paths' = s.handled
    /\ ops' = s.ops
    /\ IF s.err # ""
       THEN pc' = "done" /\ outcome' = s.err /\ idx' = idx
       ELSE pc' = pc /\ outcome' = outcome /\ idx' = idx + 1

\* a mutation of Begin: the root check is left out
Begin_NoRootCheck ==
    /\ pc = "call"
    /\ \E c \in compare_structures(current_items, desired_items, FALSE) :
          missing_items' = c[1] /\ added_items' = c[2]
    /\ pc' = "mkdir"
    /\ UNCHANGED <<fs, handled_paths, idx, dirs_to_check, ops, outcome, args, workflow, tree, current_dir>>

\* lines 98-107: the root check and the diff
Begin ==
    /\ pc = "call"
    /\ IF ~IsDir(fs, root_dir)
       THEN /\ pc' = "done"
            /\ outcome' = "no_root"
            /\ UNCHANGED <<missing_items, added_items>>
       ELSE /\ \E c \in compare_structures(current_items, desired_items, FALSE) :
                 missing_items' = c[1] /\ added_items' = c[2]
            /\ pc' = "mkdir"
            /\ UNCHANGED outcome
    /\ UNCHANGED <<fs, handled_paths, idx, dirs_to_check, ops, args, workflow, tree, current_dir>>

\* lines 110-116
CreateDirStep ==
    /\ pc = "mkdir" /\ idx <= Len(added_items)
    /\ Iterate(CreateDirItem(root_dir, added_items[idx], RunState))
    /\ UNCHANGED <<missing_items, added_items, dirs_to_check, args, workflow, tree, current_dir>>

\* lines 119-128
StartMoves ==
    /\ pc = "mkdir" /\ idx > Len(added_items)
    /\ pc' = "move" /\ idx' = 1
    /\ UNCHANGED <<fs, missing_items, added_items, handled_paths, dirs_to_check, ops, outcome, args, workflow, tree, current_dir>>

\* lines 130-159
MoveStep ==
    /\ pc = "move" /\ idx <= Len(HashOrder(missing_items))
    /\ Iterate(MoveHash(root_dir, missing_items, added_items, HashOrder(missing_items)[idx], RunState))
    /\ UNCHANGED <<missing_items, added_items, dirs_to_check, args, workflow, tree, current_dir>>

StartDeletes ==
    /\ pc = "move" /\ idx > Len(HashOrder(missing_items))
    /\ pc' = "delete" /\ idx' = 1
    /\ UNCHANGED <<fs, missing_items, added_items, handled_paths, dirs_to_check, ops, outcome, args, workflow, tree, current_dir>>

\* lines 162-178
DeleteStep ==
    /\ pc = "delete" /\ idx <= Len(missing_items)
    /\ Iterate(DeleteItem(root_dir, missing_items[idx], RunState))
    /\ UNCHANGED <<missing_items, added_items, dirs_to_check, args, workflow, tree, current_dir>>

\* lines 181-194
StartPrune ==
    /\ pc = "delete" /\ idx > Len(missing_items)
    /\ pc' = "prune" /\ idx' = 1
    /\ dirs_to_check' = DirsToCheck(missing_items)
    /\ UNCHANGED <<fs, missing_items, added_items, handled_paths, ops, outcome, args, workflow, tree, current_dir>>

\* lines 197-214: the next candidate is one of the deepest left; sorted()
\* keeps candidates of equal depth in the iteration order of the set
PruneStep ==
    /\ pc = "prune"
    /\ \E dir_path \in dirs_to_check :
        /\ \A o \in dirs_to_check : DepthKey(o) <= DepthKey(dir_path)
        /\ Iterate(PruneDir(root_dir, dir_path, RunState))
        /\ dirs_to_check' = dirs_to_check \ {dir_path}
    /\ UNCHANGED <<missing_items, added_items, args, workflow, tree, current_dir>>

\* falling off the end of apply_changes
Finish ==
    /\ pc = "prune" /\ dirs_to_check = {}
    /\ pc' = "done" /\ outcome' = "ok"
    /\ UNCHANGED <<fs, missing_items, added_items, handled_paths, idx, dirs_to_check, ops, args, workflow, tree, current_dir>>

\* the caller invokes apply_changes again with the same arguments
Resync ==
    /\ pc = "done" /\ outcome = "ok" /\ run = 1
    /\ run' = 2
    /\ pc' = "call" /\ outcome' = ""
    /\ missing_items' = <<>> /\ added_items' = <<>>
    /\ handled_paths' = {} /\ idx' = 1 /\ dirs_to_check' = {} /\ ops' = <<>>
    /\ UNCHANGED <<fs, fs0, root_dir, current_items, desired_items, current_dir, tree, workflow>>

\* one call of apply_changes
Next ==
    \/ Begin
    \/ CreateDirStep
    \/ StartMoves
    \/ MoveStep
    \/ StartDeletes
    \/ DeleteStep
    \/ StartPrune
    \/ PruneStep
    \/ Finish

Spec == Init /\ [][Next]_vars

\* a call, and the same call once more
NextTwice ==
    \/ Begin
    \/ CreateDirStep
    \/ StartMoves
    \/ MoveStep
    \/ StartDeletes
    \/ DeleteStep
    \/ StartPrune
    \/ PruneStep
    \/ Finish
    \/ Resync

SpecTwice == Init /\ [][NextTwice]_vars

\* the state before a call that has nothing but its arguments
Idle ==
    /\ fs0 = fs
    /\ root_dir = RootDir
    /\ pc = "call"
    /\ missing_items = <<>>
    /\ added_items = <<>>
    /\ handled_paths = {}
    /\ idx = 1
    /\ dirs_to_check = {}
    /\ ops = <<>>
    /\ outcome = ""
    /\ run = 1
    /\ current_dir = <<>>
    /\ tree = NoTree
    /\ strategies = <<>>
    /\ selected = -1
    /\ trail = <<>>

InitSnapshot ==
    /\ fs \in ScanTrees
    /\ current_items = <<>>
    /\ desired_items = <<>>
    /\ Idle

\* current_structure = create_json_from_dir(root_dir): reads, never writes
Snapshot ==
    /\ pc = "call"
    /\ current_items' \in create_json_from_dir(fs, root_dir)
    /\ pc' = "scanned"
    /\ UNCHANGED <<fs, fs0, root_dir, desired_items, missing_items, added_items,
                   handled_paths, idx, dirs_to_check, ops, outcome, run, current_dir, tree, workflow>>

NextSnapshot == Snapshot

SpecSnapshot == InitSnapshot /\ [][NextSnapshot]_vars

InitCompare ==
    /\ fs = Tree({RootDir}, NoFiles)
    /\ current_items \in CompareLists(MaxCompare)
    /\ desired_items \in CompareLists(MaxCompare)
    /\ Idle

\* missing, added = compare_structures(current_items, desired_items)
CompareDefault ==
    /\ pc = "call"
    /\ \E c \in compare_structures(current_items, desired_items, FALSE) :
          missing_items' = c[1] /\ added_items' = c[2]
    /\ pc' = "compared"
    /\ UNCHANGED <<fs, fs0, root_dir, current_items, desired_items,
                   handled_paths, idx, dirs_to_check, ops, outcome, run, current_dir, tree, workflow>>

\* missing, added = compare_structures(current, desired, files_only=True)
CompareFilesOnly ==
    /\ pc = "call"
    /\ \E c \in compare_structures(current_items, desired_items, TRUE) :
          missing_items' = c[1] /\ added_items' = c[2]
    /\ pc' = "validated"
    /\ UNCHANGED <<fs, fs0, root_dir, current_items, desired_items,
                   handled_paths, idx, dirs_to_check, ops, outcome, run, current_dir, tree, workflow>>

NextCompare ==
    \/ CompareDefault
    \/ CompareFilesOnly

SpecCompare == InitCompare /\ [][NextCompare]_vars

\* apply_changes on the nested trees, with item paths that reach into the
\* root through its parent
InitNested ==
    /\ fs \in NestedTrees
    /\ current_items \in NestedLists(MaxCurrent) \cup create_json_from_dir(fs, RootDir)
    /\ desired_items \in NestedLists(MaxDesired)
    /\ Idle

SpecNested == InitNested /\ [][Next]_vars

\* apply_changes on items that share hashes or have none, once and twice
InitHashes ==
    /\ fs \in HashTrees
    /\ current_items \in HashLists(MaxCurrent) \cup create_json_from_dir(fs, RootDir)
    /\ desired_items \in HashLists(MaxDesired)
    /\ Idle

SpecHashes == InitHashes /\ [][Next]_vars

SpecHashesTwice == InitHashes /\ [][NextTwice]_vars

\* apply_changes with the walk of step 4 taken one loop iteration at a time

\* line 181: dirs_to_check starts empty
StartWalk ==
    /\ pc = "delete" /\ idx > Len(missing_items)
    /\ pc' = "walk" /\ idx' = 1
    /\ dirs_to_check' = {}
    /\ UNCHANGED <<fs, missing_items, added_items, handled_paths, ops, outcome, args, workflow, tree, current_dir>>

\* lines 183-186: the next missing item, and where its walk starts
WalkItem ==
    /\ pc = "walk" /\ idx <= Len(missing_items)
    /\ current_dir' = (IF EndsWithSlash(missing_items[idx].path)
                       THEN StripSlash(missing_items[idx].path)
                       ELSE Dirname(missing_items[idx].path))
    /\ pc' = "while"
    /\ UNCHANGED <<fs, missing_items, added_items, handled_paths, idx, dirs_to_check, ops, outcome, args, workflow, tree>>

\* a mutation of WalkStep: the walk does not stop when the parent of
\* current_dir is current_dir
WalkStep_NoBreak ==
    /\ pc = "while"
    /\ IF current_dir = <<>>
       THEN /\ pc' = "walk" /\ idx' = idx + 1
            /\ UNCHANGED <<current_dir, dirs_to_check>>
       ELSE /\ dirs_to_check' = dirs_to_check \cup {current_dir}
            /\ current_dir' = Dirname(current_dir)
            /\ UNCHANGED <<pc, idx>>
    /\ UNCHANGED <<fs, missing_items, added_items, handled_paths, ops, outcome, args, workflow, tree>>

\* lines 189-194: one test of the while condition and one pass of its body
WalkStep ==
    /\ pc = "while"
    /\ IF current_dir = <<>>
       THEN /\ pc' = "walk" /\ idx' = idx + 1
            /\ UNCHANGED <<current_dir, dirs_to_check>>
       ELSE /\ dirs_to_check' = dirs_to_check \cup {current_dir}
            /\ IF Dirname(current_dir) = current_dir
               THEN /\ pc' = "walk" /\ idx' = idx + 1
                    /\ UNCHANGED current_dir
               ELSE /\ current_dir' = Dirname(current_dir)
                    /\ UNCHANGED <<pc, idx>>
    /\ UNCHANGED <<fs, missing_items, added_items, handled_paths, ops, outcome, args, workflow, tree>>

\* line 197: the candidates are complete
EndWalk ==
    /\ pc = "walk" /\ idx > Len(missing_items)
    /\ pc' = "prune" /\ idx' = 1
    /\ UNCHANGED <<fs, missing_items, added_items, handled_paths, dirs_to_check, ops, outcome, args, workflow, tree, current_dir>>

InitWalk ==
    /\ fs \in WalkTrees
    /\ current_items \in WalkLists(MaxCurrent) \cup create_json_from_dir(fs, RootDir)
    /\ desired_items \in WalkLists(MaxDesired)
    /\ Idle

NextWalk ==
    \/ Begin
    \/ CreateDirStep
    \/ StartMoves
    \/ MoveStep
    \/ StartDeletes
    \/ DeleteStep
    \/ StartWalk
    \/ WalkItem
    \/ WalkStep
    \/ EndWalk
    \/ PruneStep
    \/ Finish

\* the statements of lines 181-194
Walk ==
    \/ StartWalk
    \/ WalkItem
    \/ WalkStep
    \/ EndWalk

\* apply_changes runs in one thread and lines 181-194 wait for nothing: a
\* statement of the walk that can be executed is executed
SpecWalk == InitWalk /\ [][NextWalk]_vars /\ WF_vars(Walk)

InitRender ==
    /\ fs = Tree({RootDir}, NoFiles)
    /\ current_items \in RenderLists(MaxRender)
    /\ desired_items = <<>>
    /\ Idle

\* tree = self.generate_file_tree(items)
Render ==
    /\ pc = "call"
    /\ tree' = generate_file_tree(current_items)
    /\ pc' = "rendered"
    /\ UNCHANGED <<fs, fs0, root_dir, current_items, desired_items, missing_items, added_items,
                   handled_paths, idx, dirs_to_check, ops, outcome, run, current_dir, workflow>>

NextRender == Render

SpecRender == InitRender /\ [][NextRender]_vars

(***************************************************************************)
(* FileOrganizer.organize.  The snapshot is create_json_from_dir, the sync *)
(* is apply_changes, taken one loop iteration at a time by the actions of  *)
(* Next once apply_strategy has made the call.                             *)
(***************************************************************************)

\* bool(x) is False for None and for the empty list; a list of items cannot
\* be compared with NONE, their printed forms can
Falsy(x) == Len(x) = 0 \/ ToString(x) = ToString(NONE)

\* one pass of the loop of validate_options: the files_only diff of a
\* strategy has nothing missing and nothing added
StrategyValid(current_structure, items) ==
    \A c \in compare_structures(current_structure, items, TRUE) : Len(c[1]) = 0 /\ Len(c[2]) = 0

\* a mutation of validate_options: all_valid is what the last strategy gave
validate_options_LastOnly(current_structure, proposed_structures) ==
    proposed_structures = <<>>
    \/ StrategyValid(current_structure, proposed_structures[Len(proposed_structures)])

\* validate_options: all_valid stays True only if no strategy set it False
validate_options(current_structure, proposed_structures) ==
    \A k \in DOMAIN proposed_structures : StrategyValid(current_structure, proposed_structures[k])

\* the numbers typed at the prompt so far
Prompts == Cardinality({i \in DOMAIN trail : trail[i] = "prompt"})

\* lines 108-117: the snapshot, then its tree or the early return
TakeSnapshot ==
    /\ pc = "organize"
    /\ \E current_structure \in create_json_from_dir(fs, root_dir) :
        /\ current_items' = current_structure
        /\ IF Falsy(current_structure)
           THEN pc' = "returned" /\ UNCHANGED <<tree, trail>>
           ELSE /\ tree' = generate_file_tree(current_structure)
                /\ IF tree'.err # ""
                   THEN pc' = "caught" /\ UNCHANGED trail
                   ELSE pc' = "generate" /\ trail' = Append(trail, "snapshot")
    /\ UNCHANGED <<fs, fs0, root_dir, desired_items, missing_items, added_items, handled_paths,
                   idx, dirs_to_check, ops, outcome, run, current_dir, strategies, selected>>

\* line 119: the response of the language model, or the exception of the
\* call, which line 130 catches
GenerateOptions ==
    /\ pc = "generate"
    /\ \/ strategies' \in StrategyLists(MaxStrategies) /\ pc' = "validate"
       \/ strategies' = strategies /\ pc' = "caught"
    /\ UNCHANGED <<fs, fs0, root_dir, current_items, desired_items, missing_items, added_items,
                   handled_paths, idx, dirs_to_check, ops, outcome, run, current_dir, tree,
                   selected, trail>>

\* lines 120-123: validate_options over all strategies, then the table of
\* their trees or the early return
ValidateOptions ==
    /\ pc = "validate"
    /\ IF validate_options(current_items, strategies)
       THEN IF \E k \in DOMAIN strategies : generate_file_tree(strategies[k]).err # ""
            THEN pc' = "caught" /\ UNCHANGED trail
            ELSE pc' = "select" /\ trail' = Append(trail, "valid")
       ELSE pc' = "returned" /\ UNCHANGED trail
    /\ UNCHANGED <<fs, fs0, root_dir, current_items, desired_items, missing_items, added_items,
                   handled_paths, idx, dirs_to_check, ops, outcome, run, current_dir, tree,
                   strategies, selected>>

\* lines 80-90 and 96-97: one prompt.  It gives a number, which is in
\* range or not, or raises: ValueError restarts the loop, anything else
\* leaves select_strategy and is caught at line 130
Prompt ==
    /\ pc = "select" /\ Prompts < MaxPrompts
    /\ \/ \E number \in -1..MaxStrategies :
            /\ selected' = number
            /\ IF 0 <= number /\ number < Len(strategies)
               THEN pc' = "confirm" /\ trail' = trail \o <<"prompt", "index">>
               ELSE pc' = "select" /\ trail' = Append(trail, "prompt")
       \/ \E raised \in {"ValueError", "Abort"} :
            /\ selected' = selected
            /\ trail' = Append(trail, "prompt")
            /\ pc' = (IF raised = "ValueError" THEN "select" ELSE "caught")
    /\ UNCHANGED <<fs, fs0, root_dir, current_items, desired_items, missing_items, added_items,
                   handled_paths, idx, dirs_to_check, ops, outcome, run, current_dir, tree,
                   strategies>>

\* lines 92-94: the confirmation; "no" restarts the loop
Confirm ==
    /\ pc = "confirm"
    /\ \E answer \in {"yes", "no", "Abort"} :
        /\ pc' = (IF answer = "yes" THEN "apply" ELSE IF answer = "no" THEN "select" ELSE "caught")
        /\ trail' = (IF answer = "yes" THEN Append(trail, "confirmed") ELSE trail)
    /\ UNCHANGED <<fs, fs0, root_dir, current_items, desired_items, missing_items, added_items,
                   handled_paths, idx, dirs_to_check, ops, outcome, run, current_dir, tree,
                   strategies, selected>>

\* a mutation of ApplyStrategy: the strategy after the chosen one is applied
ApplyStrategy_OffByOne ==
    /\ pc = "apply"
    /\ desired_items' = strategies[((selected + 1) % Len(strategies)) + 1]
    /\ trail' = Append(trail, "sync")
    /\ pc' = "call"
    /\ UNCHANGED <<fs, fs0, root_dir, current_items, missing_items, added_items, handled_paths,
                   idx, dirs_to_check, ops, outcome, run, current_dir, tree, strategies, selected>>

\* lines 125-128 and 99-104: sync(current_structure, strategies[option].items)
ApplyStrategy ==
    /\ pc = "apply"
    /\ desired_items' = strategies[selected + 1]
    /\ trail' = Append(trail, "sync")
    /\ pc' = "call"
    /\ UNCHANGED <<fs, fs0, root_dir, current_items, missing_items, added_items, handled_paths,
                   idx, dirs_to_check, ops, outcome, run, current_dir, tree, strategies, selected>>

InitOrganize ==
    /\ fs \in Trees
    /\ fs0 = fs
    /\ root_dir = RootDir
    /\ current_items = <<>>
    /\ desired_items = <<>>
    /\ pc = "organize"
    /\ missing_items = <<>>
    /\ added_items = <<>>
    /\ handled_paths = {}
    /\ idx = 1
    /\ dirs_to_check = {}
    /\ ops = <<>>
    /\ outcome = ""
    /\ run = 1
    /\ current_dir = <<>>
    /\ tree = NoTree
    /\ strategies = <<>>
    /\ selected = -1
    /\ trail = <<>>

\* organize, with the sync it may end in
NextOrganize ==
    \/ TakeSnapshot
    \/ GenerateOptions
    \/ ValidateOptions
    \/ Prompt
    \/ Confirm
    \/ ApplyStrategy
    \/ Begin
    \/ CreateDirStep
    \/ StartMoves
    \/ MoveStep
    \/ StartDeletes
    \/ DeleteStep
    \/ StartPrune
    \/ PruneStep
    \/ Finish

SpecOrganize == InitOrganize /\ [][NextOrganize]_vars

(***************************************************************************)
(* Vocabulary of the properties                                            *)
(***************************************************************************)

\* q is dir or lies below it, compared by path segment
AtOrUnder(q, dir) == q = dir \/ StartsWith(q, dir \o <<"/">>)

\* the part of a filesystem at or below dir, and the rest of it
Under(fsys, dir) ==
    [d |-> {q \in fsys.d : AtOrUnder(q, dir)},
     f |-> [q \in {e \in DOMAIN fsys.f : AtOrUnder(e, dir)} |-> fsys.f[q]]]

Outside(fsys, dir) ==
    [d |-> {q \in fsys.d : ~AtOrUnder(q, dir)},
     f |-> [q \in {e \in DOMAIN fsys.f : ~AtOrUnder(e, dir)} |-> fsys.f[q]]]

\* where an item path lands, and whether that is inside the canonical root
Target(path) == Realpath(FullPath(root_dir, path))

Inside(path) == AtOrUnder(Target(path), real_root_dir(root_dir))

Completed == pc = "done" /\ run = 1 /\ outcome = "ok"

\* what the caller of apply_changes gets back: lines 100 and 214 both
\* return None, anything else is an exception passing through
CallerSees(o) == IF o \in {"ok", "no_root"} THEN <<"return", "None">> ELSE <<"raise", o>>

NoDiff == {<< <<>>, <<>> >>}

\* current_items is what create_json_from_dir returned for the root before
\* the first call
Accurate == IsDir(fs0, root_dir) /\ current_items \in create_json_from_dir(fs0, root_dir)

\* the two lists hold the same number of files of every hash
SameFiles(a, b) ==
    \A h \in {a[i].hash : i \in FileIdx(a)} \cup {b[j].hash : j \in FileIdx(b)} :
        Cardinality({i \in FileIdx(a) : a[i].hash = h}) = Cardinality({j \in FileIdx(b) : b[j].hash = h})

\* items is shaped like a snapshot: root-relative paths without "." or ".."
\* segments, and no directory marker above another item
SnapshotShaped(items) ==
    \A i \in 1..Len(items) :
        /\ items[i].path[1] # "/"
        /\ \A k \in 1..Len(SplitSlash(items[i].path)) :
               SplitSlash(items[i].path)[k] \notin {<<".">>, <<".", ".">>}
        /\ \A j \in 1..Len(items) :
               (j # i /\ EndsWithSlash(items[i].path)) => ~StartsWith(items[j].path, items[i].path)

(***************************************************************************)
(* Properties                                                              *)
(***************************************************************************)

\* C1: whatever the items are, nothing outside the canonical root is
\* created, moved, deleted or changed: the filesystem outside the root is
\* at every moment what it was before the call.
C1_Containment == Outside(fs, real_root_dir(root_dir)) = Outside(fs0, real_root_dir(root_dir))

\* C2: the guard compares by segment, so the sibling directory whose name
\* starts with the root's name (and everything below it) is never touched.
C2_SiblingUntouched == Under(fs, SiblingDir) = Under(fs0, SiblingDir)

\* C3: a second call with the same arguments, made after the first one
\* completed, makes no filesystem mutation and completes.  Stated for the
\* calls whose current is the snapshot of the root.
C3_Idempotent == (run = 2 /\ Accurate) => (ops = <<>> /\ (pc = "done" => outcome = "ok"))

\* C4: when current is the snapshot of the root and sync has completed, the
\* snapshot of the root taken afterwards has no missing and no added item
\* relative to desired.  Stated for the desired lists that are shaped like
\* a snapshot and hold the files of current, content for content, at
\* possibly other paths.
C4_RoundTrip ==
    (/\ Completed
     /\ Accurate
     /\ SnapshotShaped(desired_items)
     /\ SameFiles(current_items, desired_items))
    => \A snap \in create_json_from_dir(fs, root_dir) :
          compare_structures(snap, desired_items, FALSE) = NoDiff

\* the directories strictly between the root and the file at p
AncestorsInRoot(p) == {d \in WalkUp(Dirname(p)) : d # real_root_dir(root_dir) /\ AtOrUnder(d, real_root_dir(root_dir))}

\* C5: for a missing file (present on disk with that content) and an added
\* file of the same hash, both inside the root: after sync the old path is
\* gone, the new path holds the original bytes, and no ancestor directory
\* of the old path is left behind empty.  Stated for the calls whose
\* current is the snapshot of the root, and for the hashes that one missing
\* and one added file have; an old path that is also the path of an added
\* file is not required to be gone.
C5_MoveDetection ==
    (Completed /\ Accurate) =>
    \A i \in FileIdx(missing_items), j \in FileIdx(added_items) :
        LET old == Target(missing_items[i].path)
            new == Target(added_items[j].path)
        IN (/\ missing_items[i].hash = added_items[j].hash
            /\ \A k \in FileIdx(missing_items) : missing_items[k].hash = missing_items[i].hash => k = i
            /\ \A k \in FileIdx(added_items) : added_items[k].hash = added_items[j].hash => k = j
            /\ Inside(missing_items[i].path) /\ Inside(added_items[j].path)
            /\ old \in DOMAIN fs0.f /\ Md5(fs0.f[old]) = missing_items[i].hash)
           => /\ (\A k \in FileIdx(added_items) : Target(added_items[k].path) # old)
                    => old \notin Entries(fs)
              /\ new \in DOMAIN fs.f /\ fs.f[new] = fs0.f[old]
              /\ \A d \in AncestorsInRoot(old) : d \in fs.d => HasChildren(fs, d)

\* C6: when the pair matched for a hash has its source inside the root and
\* its destination outside, then at the end of sync the source file is
\* still at its old path and nothing was created at the destination.
C6_SkippedMoveStays ==
    Completed =>
    \A k \in 1..Len(HashOrder(missing_items)) :
        LET h == HashOrder(missing_items)[k]
            old == Target(ByHash(missing_items, h).path)
            new == Target(ByHash(added_items, h).path)
        IN (/\ HasHash(added_items, h)
            /\ Inside(ByHash(missing_items, h).path)
            /\ ~Inside(ByHash(added_items, h).path)
            /\ old \in DOMAIN fs0.f)
           => /\ old \in DOMAIN fs.f /\ fs.f[old] = fs0.f[old]
              /\ new \in Entries(fs) => new \in Entries(fs0)
              /\ new \in DOMAIN fs.f => fs.f[new] = fs0.f[new]

\* the items whose path is inside the root
InsideOnly(items) == SelectSeq(items, LAMBDA it : Inside(it.path))

\* C7: an item that resolves outside the root does not abort sync, and the
\* items inside the root are processed as if it were not in the input: the
\* call ends as, and leaves the root as, the call without those items does.
C7_ViolationIsPerItem ==
    (/\ pc = "done" /\ run = 1
     /\ IsDir(fs0, root_dir)
     /\ InsideOnly(current_items) \o InsideOnly(desired_items) # current_items \o desired_items)
    => LET ref == apply_changes(fs0, InsideOnly(current_items), InsideOnly(desired_items), root_dir)
       IN /\ outcome = (IF ref.err = "" THEN "ok" ELSE ref.err)
          /\ Under(fs, real_root_dir(root_dir)) = Under(ref.fs, real_root_dir(root_dir))

\* the candidate whose removal a step 4 iteration attempts
Attempted == CHOOSE x \in dirs_to_check : x \notin dirs_to_check'

\* C8: a step 4 iteration whose candidate is a directory that still holds
\* a file or a subdirectory removes nothing: the directory and its contents
\* are as before.
C8_NonEmptySurvives ==
    [][(/\ pc = "prune" /\ dirs_to_check' # dirs_to_check
        /\ IsDir(fs, FullPath(root_dir, Attempted))
        /\ HasChildren(fs, Resolve(fs, FullPath(root_dir, Attempted)).at))
       => fs' = fs]_vars

\* C8 witness: step 4 is over, a file was removed from a directory of the
\* root that was a candidate, and the directory is still there with the
\* file that sync did not touch.
C8_Witness ==
    /\ Completed
    /\ \E i \in 1..Len(ops) : ops[i].op = "remove" /\ Realpath(ops[i].path) = InRoot(P_ax)
    /\ <<"a">> \in DirsToCheck(missing_items)
    /\ InRoot(<<"a">>) \in fs.d
    /\ InRoot(P_ay) \in DOMAIN fs.f /\ fs.f[InRoot(P_ay)] = fs0.f[InRoot(P_ay)]

\* C9: when sync ends, every added directory marker inside the root is a
\* directory on disk.  Stated for the calls whose current is the snapshot
\* of the root.
C9_AddedDirsExist ==
    (Completed /\ Accurate) =>
    \A i \in 1..Len(added_items) :
        (EndsWithSlash(added_items[i].path) /\ Inside(added_items[i].path))
        => Target(added_items[i].path) \in fs.d

ScanTop == Resolve(fs, root_dir).at

\* C15: the snapshot of a directory holds exactly one file item per regular
\* file below it and one marker per directory below it that holds nothing;
\* a directory that holds something and the root itself are not in it, and
\* an empty root gives the empty list.
C15_SnapshotContent ==
    (pc = "scanned" /\ IsDir(fs, root_dir)) =>
    /\ {current_items[i] : i \in 1..Len(current_items)} = SnapshotItems(fs, root_dir)
    /\ Len(current_items) = Cardinality(SnapshotItems(fs, root_dir))
    /\ \A i \in 1..Len(current_items) :
          LET at == Target(current_items[i].path) IN
          /\ at # ScanTop
          /\ EndsWithSlash(current_items[i].path) <=> (at \in fs.d /\ ~HasChildren(fs, at))
          /\ ~EndsWithSlash(current_items[i].path) <=> at \in DOMAIN fs.f
    /\ ~HasChildren(fs, ScanTop) => current_items = <<>>

\* C15 witness: a scanned root with a file, a directory that holds only an
\* empty directory, and the marker of the empty one in the result.
C15_Witness ==
    /\ pc = "scanned"
    /\ InRoot(<<"x">>) \in DOMAIN fs.f
    /\ InRoot(<<"a", "/", "b">>) \in fs.d
    /\ ~HasChildren(fs, InRoot(<<"a", "/", "b">>))
    /\ \E i \in 1..Len(current_items) : current_items[i] = DirItem(<<"a", "/", "b", "/">>)
    /\ \A i \in 1..Len(current_items) : current_items[i].path # P_a

\* C16: the snapshot is in strictly ascending order of path: sorted, and no
\* two items with the same path.
C16_SnapshotSorted ==
    (pc = "scanned" /\ IsDir(fs, root_dir)) =>
    \A i, j \in 1..Len(current_items) :
        i < j => StrLess(current_items[i].path, current_items[j].path)

\* C16 witness: a snapshot of three items or more that is in neither order
\* the walk collects them in.
C16_Witness ==
    /\ pc = "scanned" /\ IsDir(fs, root_dir)
    /\ Len(current_items) >= 3
    /\ \A rev \in BOOLEAN : current_items # WalkFrom(fs, ScanTop, ScanTop, rev)

\* C17: on a path that is missing or is not a directory the snapshot call
\* returns None, raises nothing and leaves the filesystem as it was.
C17_NotADirectory ==
    (pc = "scanned" /\ ~IsDir(fs, root_dir)) =>
    /\ current_items = NONE
    /\ outcome = ""
    /\ fs = fs0 /\ ops = <<>>

\* C17 witness: the call has returned None where the root is a regular
\* file.
C17_Witness ==
    /\ pc = "scanned"
    /\ RootDir \in DOMAIN fs.f
    /\ current_items = NONE

\* the items of a list, as a set
ItemsOf(items) == {items[i] : i \in 1..Len(items)}

\* the default comparison key as a pair: (path, hash) for a file, the path
\* alone for a directory marker
PathHash(it) == IF EndsWithSlash(it.path) THEN <<it.path>> ELSE <<it.path, it.hash>>

\* C11: in default mode missing is exactly the current items whose
\* (path, hash) no desired item has, added is exactly the desired items
\* whose (path, hash) no current item has, each once; so an item with the
\* same path and hash on both sides is in neither, and a file whose hash
\* differs at the same path is in both.
C11_FlatDifference ==
    pc = "compared" =>
    /\ ItemsOf(missing_items) = {it \in ItemsOf(current_items) :
                                    \A o \in ItemsOf(desired_items) : PathHash(o) # PathHash(it)}
    /\ ItemsOf(added_items) = {it \in ItemsOf(desired_items) :
                                  \A o \in ItemsOf(current_items) : PathHash(o) # PathHash(it)}
    /\ Len(missing_items) = Cardinality(ItemsOf(missing_items))
    /\ Len(added_items) = Cardinality(ItemsOf(added_items))
    /\ \A it \in ItemsOf(current_items), o \in ItemsOf(desired_items) :
          (~EndsWithSlash(it.path) /\ it.path = o.path /\ it.hash # o.hash)
          => it \in ItemsOf(missing_items) /\ o \in ItemsOf(added_items)

\* C11 witness: one file with the same path and hash on both sides, one
\* whose hash changed; the diff holds the old and the new item of the
\* second and nothing of the first.
C11_Witness ==
    /\ pc = "compared"
    /\ FileItem(P_bx, Bytes1) \in ItemsOf(current_items) \cap ItemsOf(desired_items)
    /\ FileItem(P_ax, Bytes1) \in ItemsOf(current_items)
    /\ FileItem(P_ax, Bytes2) \in ItemsOf(desired_items)
    /\ missing_items = <<FileItem(P_ax, Bytes1)>>
    /\ added_items = <<FileItem(P_ax, Bytes2)>>

\* C12: with files_only a file that has a file of the same base name and
\* hash on the other side is in neither list, wherever the two are, and no
\* directory marker is in missing or added.
C12_FilesOnly ==
    pc = "validated" =>
    /\ \A it \in ItemsOf(current_items), o \in ItemsOf(desired_items) :
          (/\ ~EndsWithSlash(it.path) /\ ~EndsWithSlash(o.path)
           /\ Basename(it.path) = Basename(o.path) /\ it.hash = o.hash)
          => it \notin ItemsOf(missing_items) /\ o \notin ItemsOf(added_items)
    /\ \A it \in ItemsOf(missing_items) \cup ItemsOf(added_items) : ~EndsWithSlash(it.path)

\* C12 witness: the same file in another directory, a marker on one side
\* only, and an empty diff.
C12_Witness ==
    /\ pc = "validated"
    /\ FileItem(P_ax, Bytes1) \in ItemsOf(current_items)
    /\ DirItem(<<"b", "/">>) \in ItemsOf(current_items)
    /\ desired_items = <<FileItem(P_bx, Bytes1)>>
    /\ missing_items = <<>> /\ added_items = <<>>

\* C13: comparing a list with itself gives two empty lists, in both modes.
C13_SelfCompare ==
    (pc \in {"compared", "validated"} /\ current_items = desired_items)
    => missing_items = <<>> /\ added_items = <<>>

\* C13 witness: a list of a file and a marker compared with itself by
\* name and hash.
C13_Witness ==
    /\ pc = "validated"
    /\ current_items = desired_items
    /\ \E i, j \in 1..Len(current_items) :
          EndsWithSlash(current_items[i].path) /\ ~EndsWithSlash(current_items[j].path)
    /\ missing_items = <<>> /\ added_items = <<>>

\* C14: missing and added are each in ascending order of path, whatever
\* the order of the inputs and in both modes.
C14_DiffSorted ==
    pc \in {"compared", "validated"} =>
    /\ \A i, j \in 1..Len(missing_items) :
          i < j => ~StrLess(missing_items[j].path, missing_items[i].path)
    /\ \A i, j \in 1..Len(added_items) :
          i < j => ~StrLess(added_items[j].path, added_items[i].path)

\* C14 witness: two current items given in descending order of path come
\* back as missing in ascending order.
C14_Witness ==
    /\ pc = "compared"
    /\ Len(current_items) = 2 /\ Len(missing_items) = 2
    /\ StrLess(current_items[2].path, current_items[1].path)
    /\ missing_items = <<current_items[2], current_items[1]>>

\* the position of a phase in the order of apply_changes
PhaseRank(p) ==
    CASE p = "call" -> 0 [] p = "mkdir" -> 1 [] p = "move" -> 2
      [] p = "delete" -> 3 [] p = "prune" -> 4 [] OTHER -> 5

\* the filesystem calls a step has added to ops
NewOps == SubSeq(ops', Len(ops) + 1, Len(ops'))

\* the calls each phase makes: step 2 creates the directory it moves into
PhaseOps(p) ==
    CASE p = "mkdir" -> {"makedirs"} [] p = "move" -> {"makedirs", "move"}
      [] p = "delete" -> {"remove"} [] p = "prune" -> {"rmdir"} [] OTHER -> {}

\* C18: within one call the phases follow each other in order and never go
\* back: directories are created in step 1, files moved in step 2, files
\* removed in step 3 and directories removed in step 4 only; and a move
\* lands in a directory that exists, created just before the move when it
\* did not.
C18_PhaseOrder ==
    [][/\ PhaseRank(pc') >= PhaseRank(pc)
       /\ \A k \in 1..Len(NewOps) : NewOps[k].op \in PhaseOps(pc)
       /\ \A k \in 1..Len(NewOps) :
             NewOps[k].op = "move" =>
             LET dest_dir == Dirname(FullPath(root_dir,
                                 ByHash(added_items, HashOrder(missing_items)[idx]).path))
             IN /\ IsDir(fs', dest_dir)
                /\ ~Exists(fs, dest_dir) =>
                      (k = 2 /\ NewOps[1] = [op |-> "makedirs", path |-> dest_dir])]_vars

\* C18 witness: a call that created a directory in step 1, moved a file
\* into a directory it had to create, removed a file and then removed the
\* directory the two files were in.
C18_Witness ==
    /\ Completed
    /\ [k \in 1..Len(ops) |-> ops[k].op] = <<"makedirs", "makedirs", "move", "remove", "rmdir">>
    /\ InRoot(<<"b">>) \notin fs0.d /\ InRoot(P_bx) \in DOMAIN fs.f
    /\ InRoot(<<"a">>) \in fs0.d /\ InRoot(<<"a">>) \notin fs.d

\* the directory a step 4 candidate names
PruneTarget(dir_path) == Realpath(FullPath(root_dir, dir_path))

\* C19: step 4 attempts the removal of a candidate only when no candidate
\* below it is left to attempt; when the call ends, every candidate below the root that
\* is still a directory holds something, and the root itself is still
\* there.
C19_LeafToRoot ==
    /\ pc = "prune" =>
          \A done \in DirsToCheck(missing_items) \ dirs_to_check, left \in dirs_to_check :
              (/\ WithinRoot(root_dir, FullPath(root_dir, done))
               /\ WithinRoot(root_dir, FullPath(root_dir, left)))
              => ~(/\ PruneTarget(left) # PruneTarget(done)
                   /\ AtOrUnder(PruneTarget(left), PruneTarget(done)))
    /\ Completed =>
          /\ IsDir(fs, root_dir)
          /\ \A c \in DirsToCheck(missing_items) :
                (/\ PruneTarget(c) # real_root_dir(root_dir)
                 /\ AtOrUnder(PruneTarget(c), real_root_dir(root_dir))
                 /\ PruneTarget(c) \in fs.d)
                => HasChildren(fs, PruneTarget(c))

\* the destination of the step 2 move whose source is src
MoveDest(src) ==
    LET h == CHOOSE x \in {HashOrder(missing_items)[k] : k \in 1..Len(HashOrder(missing_items))} :
                 /\ HasHash(added_items, x)
                 /\ FullPath(root_dir, ByHash(missing_items, x).path) = src
    IN FullPath(root_dir, ByHash(added_items, h).path)

\* the places step 2 has moved a file from or to
MovedEndpoints ==
    UNION {{Realpath(ops[k].path), Realpath(MoveDest(ops[k].path))} :
              k \in {j \in 1..Len(ops) : ops[j].op = "move"}}

\* C20: a step 3 iteration removes its item's file exactly when the item is
\* a file item, its path is not in handled_paths, the path is inside the
\* root and something exists there; and it never removes what is at a
\* place step 2 has moved a file from or to in the same call.
C20_DeleteExactly ==
    [][(pc = "delete" /\ idx' = idx + 1) =>
       LET item == missing_items[idx]
           full_path == FullPath(root_dir, item.path)
       IN /\ (\E k \in 1..Len(NewOps) : NewOps[k] = [op |-> "remove", path |-> full_path])
             <=> (/\ ~EndsWithSlash(item.path)
                  /\ item.path \notin handled_paths
                  /\ Inside(item.path)
                  /\ Exists(fs, full_path))
          /\ \A k \in 1..Len(NewOps) :
                NewOps[k].op = "remove" => Realpath(NewOps[k].path) \notin MovedEndpoints]_vars

\* the items step 2 may pair: file items with a hash
Pairable(items) == {i \in 1..Len(items) : ~EndsWithSlash(items[i].path) /\ items[i].hash \notin {NONE, <<>>}}

\* the hashes that occur among both the missing and the added files
CommonHashes ==
    {missing_items[i].hash : i \in Pairable(missing_items)}
    \cap {added_items[j].hash : j \in Pairable(added_items)}

\* the moves in a sequence of calls whose source is a missing file of hash h
MovesOfHash(calls, h) ==
    {k \in 1..Len(calls) :
        /\ calls[k].op = "move"
        /\ \E i \in Pairable(missing_items) :
              missing_items[i].hash = h /\ calls[k].path = FullPath(root_dir, missing_items[i].path)}

ChainBelowRoot(item) ==
    {d \in WalkUp(IF EndsWithSlash(item.path) THEN Target(item.path) ELSE Dirname(Target(item.path))) :
        d # real_root_dir(root_dir) /\ AtOrUnder(d, real_root_dir(root_dir))}

\* C22: when the call has ended, the root is still a directory, and the
\* directories the step 4 candidates name are those of the chains of the
\* missing items, from the item's directory up to but without the root.
C22_RootNeverCandidate ==
    Completed =>
        /\ IsDir(fs, root_dir)
        /\ {PruneTarget(c) : c \in DirsToCheck(missing_items)}
              = UNION {ChainBelowRoot(missing_items[i]) : i \in 1..Len(missing_items)}

\* C23: a step 1 iteration whose marker names a directory that exists, and
\* a step 4 iteration whose candidate is not empty or is not a directory any
\* more, change nothing on disk, raise nothing, and leave the call in its
\* phase with the rest of the items or candidates still to come.
C23_RacesAreNoOps ==
    [][/\ (/\ pc = "mkdir" /\ idx <= Len(added_items)
           /\ EndsWithSlash(added_items[idx].path)
           /\ IsDir(fs, FullPath(root_dir, added_items[idx].path)))
          => /\ fs' = fs /\ ops' = ops
             /\ pc' = "mkdir" /\ outcome' = "" /\ idx' = idx + 1
       /\ (/\ pc = "prune" /\ dirs_to_check' # dirs_to_check
           /\ \/ ~IsDir(fs, FullPath(root_dir, Attempted))
              \/ HasChildren(fs, Resolve(fs, FullPath(root_dir, Attempted)).at))
          => /\ fs' = fs /\ ops' = ops
             /\ pc' = "prune" /\ outcome' = ""
             /\ dirs_to_check' = dirs_to_check \ {Attempted}]_vars

\* C23 witness: the added marker named a directory that was there, a file
\* was then removed from it, the attempt to remove the directory failed on
\* the file left in it, and the call ran to its end.
C23_Witness ==
    /\ Completed
    /\ \E j \in 1..Len(added_items) : added_items[j] = DirItem(P_a)
    /\ InRoot(<<"a">>) \in fs0.d
    /\ <<"a">> \in DirsToCheck(missing_items)
    /\ InRoot(<<"a">>) \in fs.d /\ HasChildren(fs, InRoot(<<"a">>))
    /\ [k \in 1..Len(ops) |-> ops[k].op] = <<"remove">>

\* the hashes of the file items of a list
FileHashes(items) == {items[i].hash : i \in Pairable(items)}

\* C24: when current is the snapshot of the root, every item path is inside
\* the root and the call has ended, every hash that a file item of current
\* and a file item of desired both have is the hash of some file under the
\* root.
C24_ContentKept ==
    (/\ Completed /\ Accurate
     /\ \A i \in 1..Len(current_items) : Inside(current_items[i].path)
     /\ \A j \in 1..Len(desired_items) : Inside(desired_items[j].path))
    => \A h \in FileHashes(current_items) \cap FileHashes(desired_items) :
          \E q \in DOMAIN fs.f : AtOrUnder(q, real_root_dir(root_dir)) /\ Md5(fs.f[q]) = h

\* the directories on the way from the root's side to where an item path
\* lands: the place itself for a marker, then every directory above it
ChainOf(path) == WalkUp(IF EndsWithSlash(path) THEN Target(path) ELSE Dirname(Target(path)))

\* the files that current and desired both list, path and hash alike
Matched ==
    {current_items[i].path : i \in {k \in 1..Len(current_items) :
        /\ ~EndsWithSlash(current_items[k].path)
        /\ \E j \in 1..Len(desired_items) :
              /\ desired_items[j].path = current_items[k].path
              /\ desired_items[j].hash = current_items[k].hash}}

\* C25: when current is the snapshot of the root, desired has no path twice
\* and the call has ended, every file listed alike in current and desired
\* is where it was with the content it had; a directory that sync created
\* is named by, or lies above, an added item; and a directory that sync
\* removed is in the chain of a missing item.
C25_Frame ==
    (/\ Completed /\ Accurate
     /\ \A i, j \in 1..Len(desired_items) : desired_items[i].path = desired_items[j].path => i = j)
    => /\ \A p \in Matched :
             /\ Target(p) \in DOMAIN fs.f
             /\ fs.f[Target(p)] = fs0.f[Target(p)]
       /\ \A d \in fs.d \ fs0.d : \E j \in 1..Len(added_items) : d \in ChainOf(added_items[j].path)
       /\ \A d \in fs0.d \ fs.d : \E i \in 1..Len(missing_items) : d \in ChainOf(missing_items[i].path)

\* the file item of hash h whose path is the last in ascending order
LastByPath(items, h) ==
    items[CHOOSE i \in Pairable(items) :
            /\ items[i].hash = h
            /\ \A j \in Pairable(items) : items[j].hash = h => ~StrLess(items[i].path, items[j].path)]

\* what a call with the arguments of this behaviour ends with when it
\* starts from the filesystem fsys
EndOf(fsys) == apply_changes(fsys, current_items, desired_items, root_dir)

\* C26: however the candidates of equal depth are ordered, a call ends with
\* the one filesystem and the one outcome that its arguments and the
\* filesystem it started from determine, and so does the call made after
\* it with the same arguments; and a step 2 move takes the file of the
\* missing item that is last in path order among those of its hash to the
\* path of the added item that is last in path order among those of that
\* hash, and changes no other file.
C26_Deterministic ==
    [][/\ pc' = "done" =>
            LET first == EndOf(fs0)
                end == IF run' = 1 THEN first ELSE EndOf(first.fs)
            IN /\ fs' = end.fs
               /\ outcome' = (IF end.err = "" THEN "ok" ELSE end.err)
       /\ \A k \in 1..Len(NewOps) :
             NewOps[k].op = "move" =>
             \E h \in CommonHashes :
                 LET src == Realpath(FullPath(root_dir, LastByPath(missing_items, h).path))
                     dst == Target(LastByPath(added_items, h).path)
                 IN /\ Realpath(NewOps[k].path) = src
                    /\ dst \in DOMAIN fs'.f /\ fs'.f[dst] = fs.f[src]
                    /\ \A q \in (DOMAIN fs.f \cup DOMAIN fs'.f) \ {src, dst} :
                          q \in DOMAIN fs.f /\ q \in DOMAIN fs'.f /\ fs'.f[q] = fs.f[q]]_vars

\* C26 witness: the second of two calls has ended; two missing and two
\* added files had one hash and the first call moved one of them.
C26_Witness ==
    /\ pc = "done" /\ run = 2
    /\ Accurate
    /\ Cardinality(Pairable(missing_items)) = 2 /\ Cardinality(Pairable(added_items)) = 2
    /\ Cardinality(CommonHashes) = 1
    /\ InRoot(P_by) \in DOMAIN fs.f /\ InRoot(P_by) \notin DOMAIN fs0.f

\* C28: in either mode, what compare_structures returns for (current,
\* desired) is what it returns for (desired, current) with the two lists
\* exchanged.
C28_Symmetric ==
    /\ pc = "compared" =>
          compare_structures(desired_items, current_items, FALSE) = {<<added_items, missing_items>>}
    /\ pc = "validated" =>
          compare_structures(desired_items, current_items, TRUE) = {<<added_items, missing_items>>}

\* C28 witness: a files-only comparison of two lists of two items each, with
\* an item on each side that the other side lacks.
C28_Witness ==
    /\ pc = "validated"
    /\ Len(current_items) = 2 /\ Len(desired_items) = 2
    /\ Len(missing_items) = 1 /\ Len(added_items) = 1
    /\ missing_items # added_items

\* C29: once step 4 starts to collect its candidates it comes to the end
\* of that, with the candidates that dirs_to_check is computed to hold;
\* each pass of the walk goes on to a shorter path or ends the walk of its
\* item; each iteration of the loops over items goes on to the next item or
\* ends the call, and each iteration of the loop over the candidates takes
\* one candidate off the list.
C29_Terminates ==
    /\ (pc = "walk") ~> (pc = "prune")
    /\ [][/\ (pc \in {"mkdir", "move", "delete"} /\ pc' = pc) => idx' = idx + 1
          /\ (pc = "while" /\ pc' = "walk") => idx' = idx + 1
          /\ (pc = "while" /\ pc' = "while") => Len(current_dir') < Len(current_dir)
          /\ (pc = "prune" /\ pc' = "prune") =>
                (dirs_to_check' \subseteq dirs_to_check
                 /\ Cardinality(dirs_to_check') = Cardinality(dirs_to_check) - 1)
          /\ (pc = "walk" /\ pc' = "prune") => dirs_to_check = DirsToCheck(missing_items)]_vars

\* C29 witness: the call has ended after the walk of an absolute path, which
\* went up to "/" and stopped there.
C29_Witness ==
    /\ Completed
    /\ \E i \in 1..Len(missing_items) : missing_items[i].path = P_abs
    /\ <<"/">> \in DirsToCheck(missing_items)
    /\ current_dir = <<"/">>
    /\ dirs_to_check = {}

\* the longest prefix that ends in "/" and that every item path starts with
CommonDir ==
    LET D == {d \in {SubSeq(current_items[1].path, 1, k) : k \in 0..Len(current_items[1].path)} :
                 /\ EndsWithSlash(d)
                 /\ \A i \in 1..Len(current_items) : StartsWith(current_items[i].path, d)}
    IN IF D = {} THEN <<>> ELSE CHOOSE d \in D : \A e \in D : Len(e) <= Len(d)

\* the path segments of an item below the common directory
Segments(item) == Parts(SubSeq(item.path, Len(CommonDir) + 1, Len(item.path)))

\* C30: for a list of items in which no file is named as a directory of
\* another item, the tree is labelled with the common directory of the
\* paths, or with "." when there is none or no item; its nodes are the
\* segments of each path below that directory, one under the other; and
\* the node of an item is a folder when the path ends in "/" and a file
\* leaf otherwise, the nodes above it being folders.
C30_FileTree ==
    (/\ pc = "rendered"
     /\ \A i, j \in 1..Len(current_items) :
           (i # j /\ ~EndsWithSlash(current_items[i].path))
           => ~(/\ Len(Segments(current_items[i])) <= Len(Segments(current_items[j]))
                /\ SubSeq(Segments(current_items[j]), 1, Len(Segments(current_items[i])))
                      = Segments(current_items[i])))
    => /\ tree.err = ""
       /\ tree.label = (IF current_items = <<>> \/ StripSlash(CommonDir) = <<>>
                        THEN <<".">> ELSE StripSlash(CommonDir))
       /\ DOMAIN tree.nodes =
              UNION {{SubSeq(Segments(current_items[i]), 1, k) : k \in 1..Len(Segments(current_items[i]))} :
                        i \in 1..Len(current_items)}
       /\ \A i \in 1..Len(current_items) :
             Segments(current_items[i]) # <<>> =>
                 tree.nodes[Segments(current_items[i])]
                    = (IF EndsWithSlash(current_items[i].path) THEN "dir" ELSE "file")
       /\ \A q \in DOMAIN tree.nodes :
             (\A i \in 1..Len(current_items) : Segments(current_items[i]) # q) => tree.nodes[q] = "dir"

\* the positions of an event in the trail
At(event) == {i \in DOMAIN trail : trail[i] = event}

\* C27: in organize, sync is invoked at most once, and only after, in this
\* order, a snapshot that is not empty, a validation that every proposed
\* strategy passed (its files_only diff against the snapshot has nothing
\* missing and nothing added), a number typed that is in range, and its
\* confirmation; the strategy of that number is what is synced.  Until sync
\* is invoked the filesystem is as it was, so an organize that finds the
\* snapshot empty or absent, or a strategy that fails validation, ends
\* without any mutation.
C27_SyncGuarded ==
    /\ Cardinality(At("sync")) <= 1
    /\ At("sync") # {} =>
          /\ \E a, b, c \in DOMAIN trail :
                /\ trail[a] = "snapshot" /\ trail[b] = "valid" /\ trail[c] = "index"
                /\ a < b /\ b < c
                /\ trail[c + 1] = "confirmed" /\ trail[c + 2] = "sync"
                /\ c + 2 = Len(trail)
          /\ ~Falsy(current_items)
          /\ \A k \in DOMAIN strategies :
                compare_structures(current_items, strategies[k], TRUE) = NoDiff
          /\ 0 <= selected /\ selected < Len(strategies)
          /\ desired_items = strategies[selected + 1]
    /\ At("sync") = {} => (fs = fs0 /\ ops = <<>>)
    /\ (pc # "organize"
        /\ (Falsy(current_items)
            \/ \E k \in DOMAIN strategies :
                  compare_structures(current_items, strategies[k], TRUE) # NoDiff))
       => (fs = fs0 /\ pc \in {"returned", "caught", "validate"})

\* a sync that moved a file, of the second of two strategies, chosen after
\* a first number that was out of range
C27_Witness ==
    /\ pc = "done" /\ outcome = "ok"
    /\ At("sync") # {}
    /\ Len(strategies) = 2 /\ selected = 1
    /\ Prompts = 2
    /\ fs # fs0
    /\ \E i \in DOMAIN ops : ops[i].op = "move"

====
